---- MODULE Spec2Model ----
(***************************************************************************)
(* goptimizer (src/goptimizer.go): stage a copy of the module, run `go mod *)
(* tidy` / `go mod vendor`, run betteralign over every eligible directory  *)
(* through a pool of 5 goroutines, optionally run the tests, build, diff   *)
(* the directory listing and copy the new executable back.                 *)
(*                                                                         *)
(* Directories are numbered 0..n-1, 0 being the module root; the parent of *)
(* d > 0 is (d-1) \div 2 and siblings are listed in increasing order, as   *)
(* filepath.WalkDir lists them in lexical order.  Directory entries that   *)
(* matter to the build (binaries and the like) carry a name 1..NumNames,   *)
(* the number being the name's lexical rank.                               *)
(***************************************************************************)
EXTENDS Integers, Sequences, FiniteSets, TLC

VARIABLES
    module,       \* the project on disk when the process starts (never written)
    flags,        \* the -generated and -testFiles flags (lines 47-48)
    orig,         \* tracked entries of the original tree, per directory
    stagedDirs,   \* directories that exist below tmpDir
    stage,        \* tracked entries of the staging tree, per directory
    cwd,          \* the process working directory: [tree, dir]
    originalDir,  \* main's originalDir (a directory of the original tree, -1 unset)
    pc,           \* position of main
    deferred,     \* main's deferred exit function is registered (line 336)
    err,          \* main's function-scope err is non-nil
    exitCode,     \* process exit status, -1 while running
    fatal,        \* the fatal error the run hit, "none" otherwise
    todo,         \* directories filepath.WalkDir still has to hand to the callback
    pending,      \* directory whose wg.Go call is waiting for a pool slot, -1 none
    wdErr,        \* WalkDir returned an error
    visits,       \* per directory: number of callback invocations
    classified,   \* per directory: number of shouldOptimize calls
    tasks,        \* tasks handed to the pool, in dispatch order
    wgErr,        \* the wait.Group recorded an error
    ran,          \* external commands run so far: [cmd, at]
    before,       \* snapshot taken at line 406
    after,        \* snapshot taken at line 422
    diff,         \* main's diff slice (line 429)
    executable,   \* main's executable slice
    copies        \* copyFile calls of the copy back: [src, dst, name]

vars == <<module, flags, orig, stagedDirs, stage, cwd, originalDir, pc, deferred, err,
          exitCode, fatal, todo, pending, wdErr, visits, classified, tasks,
          wgErr, ran, before, after, diff, executable, copies>>

-----------------------------------------------------------------------------
(* Bounds *)

NumDirs == 4
PoolDirs == 6
NumNames == 2
MaxFiles == 3

(* pooled.New("optimizer", 5) *)
PoolSize == 5

(* for i := 0; i < 2; i++ *)
Passes == 2

Names == 1..NumNames

-----------------------------------------------------------------------------
(* Files and directories *)

(* go: the extension is ".go"; test: the name ends in _test.go. *)
Txt == [go |-> FALSE, test |-> FALSE, parses |-> TRUE, reflect |-> FALSE]
Go == [go |-> TRUE, test |-> FALSE, parses |-> TRUE, reflect |-> FALSE]
GoReflect == [go |-> TRUE, test |-> FALSE, parses |-> TRUE, reflect |-> TRUE]
GoBad == [go |-> TRUE, test |-> FALSE, parses |-> FALSE, reflect |-> FALSE]
GoTestReflect == [go |-> TRUE, test |-> TRUE, parses |-> TRUE, reflect |-> TRUE]

FileKinds == {Txt, Go, GoReflect, GoBad, GoTestReflect}

Contents == {<<Txt>>, <<Txt, Go>>, <<Go, GoReflect>>, <<Go, GoBad>>}

Parent(d) == (d - 1) \div 2

Dirs == DOMAIN module

Children(d) == {c \in Dirs : c > 0 /\ Parent(c) = d}

RECURSIVE SortedSeq(_)
SortedSeq(S) ==
    IF S = {} THEN <<>>
    ELSE LET m == CHOOSE x \in S : \A y \in S : x <= y
         IN <<m>> \o SortedSeq(S \ {m})

(* An entry of a directory listing.  data tells whose bytes the file holds. *)
File(n, x, dt) == [name |-> n, isDir |-> FALSE, exec |-> x, data |-> dt]
SubDir(n) == [name |-> n, isDir |-> TRUE, exec |-> TRUE, data |-> "none"]

EntryNames(S) == {e.name : e \in S}

EntryOf(S, n) == CHOOSE e \in S : e.name = n

(* os.ReadDir: the entries sorted by filename. *)
RECURSIVE ReadDirOf(_)
ReadDirOf(S) ==
    IF S = {} THEN <<>>
    ELSE LET e == CHOOSE x \in S : \A y \in S : x.name <= y.name
         IN <<e>> \o ReadDirOf(S \ {e})

-----------------------------------------------------------------------------
(* shouldOptimize, lines 151-186: "err" parse error, else the verdict. *)

RECURSIVE ScanFiles(_, _)
ScanFiles(files, foundGo) ==
    IF files = <<>> THEN (IF foundGo THEN "yes" ELSE "no")
    ELSE LET f == Head(files) IN
         IF ~f.go THEN ScanFiles(Tail(files), foundGo)
         ELSE IF ~f.parses THEN "err"
         ELSE IF f.reflect THEN "no"
         ELSE ScanFiles(Tail(files), TRUE)

(* Fault variant of shouldOptimize: with -testFiles=false the test files  *)
(* are left out of the scan.                                              *)
shouldOptimizeByFlags(d) ==
    ScanFiles(SelectSeq(module[d].files,
                        LAMBDA f : ~f.test \/ flags.testFiles), FALSE)

shouldOptimize(d) == ScanFiles(module[d].files, FALSE)

(* diffDirs, lines 206-226. *)
RECURSIVE DiffLoop(_, _)
DiffLoop(m, b) ==
    IF b = <<>> THEN <<>>
    ELSE LET f == Head(b) IN
         IF f.isDir THEN DiffLoop(m, Tail(b))
         ELSE IF f.name \notin m THEN <<f>> \o DiffLoop(m, Tail(b))
         ELSE DiffLoop(m, Tail(b))

(* Fault variant of diffDirs: the directories of a are in the map too. *)
diffDirsAllNames(a, b) == DiffLoop({a[i].name : i \in DOMAIN a}, b)

diffDirs(a, b) ==
    DiffLoop({a[i].name : i \in {j \in DOMAIN a : ~a[j].isDir}}, b)

-----------------------------------------------------------------------------
(* copyFiles, lines 106-149: the directories created below dstPath. *)

(* Fault variant of SkipsHidden: hidden directories are staged too. *)
SkipsHiddenNever(d) == FALSE

(* line 113: d.IsDir() && strings.HasPrefix(d.Name(), ".") *)
SkipsHidden(d) == module[d].hidden

RECURSIVE CopyTree(_)
CopyTree(d) ==
    IF d # 0 /\ SkipsHidden(d) THEN {}
    ELSE {d} \cup UNION {CopyTree(c) : c \in {x \in Children(d) : ~module[x].vendored}}

-----------------------------------------------------------------------------
(* Initial states: the project the tool is started in. *)

DirRec(h, v, f, es) == [hidden |-> h, vendored |-> v, files |-> f, entries |-> es]

(* Trees of n directories without tracked entries.  A hidden directory's  *)
(* own files never matter.  Directories that only `go mod vendor` creates *)
(* are the last directory or the whole subtree below directory 1.         *)
Trees(n) ==
    {t \in [0..(n-1) -> {DirRec(h, v, f, {}) :
                           h \in BOOLEAN, v \in BOOLEAN, f \in Contents}] :
        /\ ~t[0].hidden /\ ~t[0].vendored
        /\ \A d \in 1..(n-1) :
              /\ t[d].hidden => t[d].files = <<Txt, Go>>
              /\ t[Parent(d)].vendored => t[d].vendored
              /\ t[d].vendored =>
                    d \in {1, n - 1} \/ t[Parent(d)].vendored}

(* What the invocation directory may already hold under the name 1. *)
PreSets == {{}, {File(1, TRUE, "pre")}, {File(1, FALSE, "pre")}, {SubDir(1)}}

(* A root and one package below it, hidden or not, started in either.     *)
PairTrees ==
    {[d \in 0..1 |-> DirRec(d = 1 /\ h, FALSE, <<Txt, Go>>,
                            IF d = inv THEN pre ELSE {})] :
        h \in BOOLEAN, inv \in 0..1, pre \in PreSets}

(* A module of one directory holding any list of up to MaxFiles files.    *)
FileLists == UNION {[1..n -> FileKinds] : n \in 0..MaxFiles}

OneDirTrees == {[d \in 0..0 |-> DirRec(FALSE, FALSE, f, {})] : f \in FileLists}

(* flag.Bool defaults of lines 47-48. *)
DefaultFlags == [generated |-> FALSE, testFiles |-> TRUE]

AllFlags == [generated : BOOLEAN, testFiles : BOOLEAN]

(* PoolDirs packages, every one eligible: more tasks than pool slots.     *)
PoolTree == [d \in 0..(PoolDirs - 1) |-> DirRec(FALSE, FALSE, <<Go>>, {})]

InitRest ==
    /\ orig = [d \in DOMAIN module |-> module[d].entries]
    /\ stagedDirs = {}
    /\ stage = [d \in DOMAIN module |-> {}]
    /\ originalDir = -1
    /\ pc = "getwd"
    /\ deferred = FALSE
    /\ err = FALSE
    /\ exitCode = -1
    /\ fatal = "none"
    /\ todo = <<>>
    /\ pending = -1
    /\ wdErr = FALSE
    /\ visits = [d \in DOMAIN module |-> 0]
    /\ classified = [d \in DOMAIN module |-> 0]
    /\ tasks = <<>>
    /\ wgErr = FALSE
    /\ ran = {}
    /\ before = <<>>
    /\ after = <<>>
    /\ diff = <<>>
    /\ executable = <<>>
    /\ copies = <<>>

Init ==
    /\ \/ /\ module \in Trees(NumDirs)
          /\ cwd = [tree |-> "orig", dir |-> 0]
          /\ flags = DefaultFlags
       \/ /\ module \in PairTrees
          /\ cwd \in {[tree |-> "orig", dir |-> d] : d \in 0..1}
          /\ \A d \in 0..1 : module[d].entries # {} => d = cwd.dir
          /\ flags = DefaultFlags
       \/ /\ module = PoolTree
          /\ cwd = [tree |-> "orig", dir |-> 0]
          /\ flags = DefaultFlags
       \/ /\ module \in OneDirTrees
          /\ cwd = [tree |-> "orig", dir |-> 0]
          /\ flags \in AllFlags
    /\ InitRest

-----------------------------------------------------------------------------
(* main, lines 314-460 *)

fsVars == <<module, flags, orig, stagedDirs, stage>>
walkVars == <<todo, pending, wdErr, visits, classified>>
poolVars == <<tasks, wgErr>>
buildVars == <<before, after, diff, executable, copies>>

StageRoot == [tree |-> "stage", dir |-> 0]

(* The status main ends with when it returns with function-scope err = e: *)
(* the deferred function of lines 336-340 exits 1 when err is non-nil.    *)
ReturnCode(e) == IF deferred /\ e THEN 1 ELSE 0

(* main returns (or exits) having hit the fatal error `kind`. *)
Stop(kind, e) ==
    /\ pc' = "exited"
    /\ err' = e
    /\ fatal' = kind
    /\ exitCode' = ReturnCode(e)

Goto(p) ==
    /\ pc' = p
    /\ UNCHANGED <<exitCode, fatal>>

(* lines 323-327: os.Getwd; on failure main returns before the defer. *)
Getwd ==
    /\ pc = "getwd"
    /\ \/ /\ originalDir' = cwd.dir
          /\ Goto("findGoMod")
          /\ UNCHANGED err
       \/ /\ Stop("getwd", TRUE)
          /\ UNCHANGED originalDir
    /\ UNCHANGED <<fsVars, walkVars, poolVars, buildVars, cwd, deferred, ran>>

(* lines 329-340: findGoMod, os.Exit(1) on failure; then the defer. *)
FindGoMod ==
    /\ pc = "findGoMod"
    /\ \/ /\ deferred' = TRUE
          /\ Goto("mkdir")
          /\ UNCHANGED err
       \/ /\ pc' = "exited"
          /\ fatal' = "gomod"
          /\ exitCode' = 1
          /\ err' = TRUE
          /\ UNCHANGED deferred
    /\ UNCHANGED <<fsVars, walkVars, poolVars, buildVars, cwd, originalDir, ran>>

(* lines 343-348: os.MkdirAll(tmpDir) *)
MkTmpDir ==
    /\ pc = "mkdir"
    /\ \/ /\ stagedDirs' = {0}
          /\ Goto("copyFiles")
          /\ UNCHANGED err
       \/ /\ Stop("staging", TRUE)
          /\ UNCHANGED stagedDirs
    /\ UNCHANGED <<module, flags, orig, stage, walkVars, poolVars, buildVars, cwd,
                   originalDir, deferred, ran>>

(* lines 141-143: d.Info() failed, its error is ignored and fi.Mode() is  *)
(* called on the nil FileInfo: the process panics.  The deferred function *)
(* of main finds err nil, so the panic ends the process with status 2.    *)
InfoPanics ==
    /\ pc' = "exited"
    /\ exitCode' = 2
    /\ fatal' = "staging"
    /\ UNCHANGED err

(* lines 356-359: copyFiles(modPath, tmpDir).  A failed MkdirAll or       *)
(* directory read is returned; a failed copy of a file is dropped (lines  *)
(* 144-146), the file is then missing from the staging tree.              *)
CopyFiles ==
    /\ pc = "copyFiles"
    /\ \/ /\ \E lost \in SUBSET {e \in orig[originalDir] : ~e.isDir} :
                /\ stagedDirs' = CopyTree(0)
                /\ stage' = [d \in Dirs |->
                               IF d \in CopyTree(0) THEN orig[d] \ lost ELSE {}]
          /\ Goto("chdir")
          /\ UNCHANGED err
       \/ /\ Stop("staging", TRUE)
          /\ UNCHANGED <<stagedDirs, stage>>
       \/ /\ InfoPanics
          /\ UNCHANGED <<stagedDirs, stage>>
    /\ UNCHANGED <<module, flags, orig, walkVars, poolVars, buildVars, cwd,
                   originalDir, deferred, ran>>

(* Fault variant of ChdirTo: the process stays where it was started. *)
ChdirStays(loc) == cwd' = cwd

(* lines 361-364: os.Chdir(tmpDir) *)
ChdirTo(loc) == cwd' = loc

Chdir ==
    /\ pc = "chdir"
    /\ \/ /\ ChdirTo(StageRoot)
          /\ Goto("tidy")
          /\ UNCHANGED err
       \/ /\ Stop("staging", TRUE)
          /\ UNCHANGED cwd
    /\ UNCHANGED <<fsVars, walkVars, poolVars, buildVars, originalDir,
                   deferred, ran>>

(* An external command started without cmd.Dir runs in the process's cwd. *)
Run(cmd, at) == ran' = ran \cup {[cmd |-> cmd, at |-> at]}

(* Fault variant of ReturnOnError: the error is reported and main goes on. *)
ReportsAndGoesOn(kind, next) ==
    /\ pc' = next
    /\ \/ UNCHANGED <<err, fatal>>
       \/ err' = TRUE /\ fatal' = kind
    /\ UNCHANGED exitCode

(* lines 368-371: `if err = ...Run(); err != nil { ...; return }` *)
ReturnOnError(kind, next) ==
    \/ Goto(next) /\ UNCHANGED err
    \/ Stop(kind, TRUE)

(* lines 368-371: go mod tidy *)
Tidy ==
    /\ pc = "tidy"
    /\ Run("tidy", cwd)
    /\ ReturnOnError("deps", "vendor")
    /\ UNCHANGED <<fsVars, walkVars, poolVars, buildVars, cwd, originalDir,
                   deferred>>

(* The directories `go mod vendor` creates below the staged ones. *)
RECURSIVE CreatedByVendor(_)
CreatedByVendor(d) ==
    /\ d # 0
    /\ module[d].vendored
    /\ Parent(d) \in stagedDirs \/ CreatedByVendor(Parent(d))

(* lines 372-375: go mod vendor; it creates the vendored directories. *)
Vendor ==
    /\ pc = "vendor"
    /\ Run("vendor", cwd)
    /\ \/ /\ stagedDirs' = stagedDirs \cup {d \in Dirs : CreatedByVendor(d)}
          /\ todo' = <<0>>
          /\ Goto("walk")
          /\ UNCHANGED err
       \/ /\ Stop("deps", TRUE)
          /\ UNCHANGED <<stagedDirs, todo>>
    /\ UNCHANGED <<module, flags, orig, stage, pending, wdErr, visits, classified,
                   poolVars, buildVars, cwd, originalDir, deferred>>

-----------------------------------------------------------------------------
(* optimize, lines 242-312 *)

TaskIds == 1..Len(tasks)

(* Fault variant of Running: the loop goes on after a failed run. *)
RunsBothPasses(t) == Len(tasks[t].out) < Passes

(* Fault variant of Running: a failed run is tried once more, until two   *)
(* runs have succeeded.                                                   *)
RetriesFailedRun(t) ==
    /\ Len(tasks[t].out) <= Passes
    /\ Cardinality({i \in 1..Len(tasks[t].out) : tasks[t].out[i]}) < Passes

(* The closure of lines 279-294 is still inside its loop. *)
Running(t) ==
    /\ Len(tasks[t].out) < Passes
    /\ \A i \in 1..Len(tasks[t].out) : tasks[t].out[i]

InFlight == {t \in TaskIds : Running(t)}

(* Fault variant of SlotFree: a pool goroutine that ran a function is     *)
(* never handed another one.                                              *)
SlotNeverReleased == Len(tasks) < PoolSize

(* Fault variant of SlotFree: wait.Group without its Pool starts a        *)
(* goroutine per call.                                                    *)
SlotFreeUnbounded == TRUE

(* pooled.New("optimizer", 5), wait.Group{Pool: pool}: wg.Go hands the    *)
(* function to a pool goroutine and blocks while all of them are busy.    *)
SlotFree == Cardinality(InFlight) < PoolSize

(* Fault variant of IsHidden: the walk descends into hidden directories. *)
IsHiddenNever(d) == FALSE

(* line 260: d.IsDir() && strings.HasPrefix(d.Name(), ".") *)
IsHidden(d) == module[d].hidden

(* WalkDir goes on with the directory's children, then its siblings. *)
Descend(d) == SortedSeq(Children(d) \cap stagedDirs) \o Tail(todo)

(* After the callback returned nil WalkDir reads the directory; when that *)
(* fails it calls the callback again with the error (line 258).           *)
CallbackReturnsNil(d, n) ==
    \/ /\ todo' = Descend(d)
       /\ visits' = [visits EXCEPT ![d] = @ + n]
       /\ UNCHANGED wdErr
    \/ /\ todo' = <<>>
       /\ visits' = [visits EXCEPT ![d] = @ + n + 1]
       /\ wdErr' = TRUE

(* lines 256-299: one call of the WalkDir callback, up to wg.Go. *)
Visit ==
    /\ pc = "walk"
    /\ pending = -1
    /\ todo # <<>>
    /\ LET d == Head(todo) IN
       IF IsHidden(d)
       THEN /\ todo' = Tail(todo)
            /\ visits' = [visits EXCEPT ![d] = @ + 1]
            /\ UNCHANGED <<pending, wdErr, classified>>
       ELSE /\ classified' = [classified EXCEPT ![d] = @ + 1]
            /\ \/ /\ shouldOptimize(d) = "yes"
                  /\ pending' = d
                  /\ visits' = [visits EXCEPT ![d] = @ + 1]
                  /\ UNCHANGED <<todo, wdErr>>
               \/ /\ shouldOptimize(d) = "no"
                  /\ CallbackReturnsNil(d, 1)
                  /\ UNCHANGED pending
               \/ \* os.ReadDir or parser.ParseFile failed (lines 153, 169)
                  /\ todo' = <<>>
                  /\ visits' = [visits EXCEPT ![d] = @ + 1]
                  /\ wdErr' = TRUE
                  /\ UNCHANGED pending
    /\ UNCHANGED <<fsVars, poolVars, buildVars, cwd, originalDir, pc, deferred,
                   err, exitCode, fatal, ran>>

(* lines 277-295: wg.Go returns once a pool goroutine took the function. *)
Args ==
    <<"-apply">>
    \o (IF flags.generated THEN <<"-generated_files">> ELSE <<>>)
    \o (IF flags.testFiles THEN <<"-test_files">> ELSE <<>>)
    \o <<".">>

NewTask(d) == [path |-> d, args |-> Args, out |-> <<>>, targets |-> {}]

Dispatch ==
    /\ pc = "walk"
    /\ pending # -1
    /\ SlotFree
    /\ tasks' = Append(tasks, NewTask(pending))
    /\ pending' = -1
    /\ CallbackReturnsNil(Head(todo), 0)
    /\ UNCHANGED <<fsVars, buildVars, classified, wgErr, cwd, originalDir, pc,
                   deferred, err, exitCode, fatal, ran>>

(* lines 283-292: one betteralign run of a task.  cmd (with cmd.Path set  *)
(* to the task's path) is never started; the command that runs has no Dir *)
(* and the argument ".", so it rewrites the process's working directory.  *)
RewriteTarget(t) == cwd

(* line 288-291: the closure returns at the first failing run. *)
AfterRun(t, ok) == Append(tasks[t].out, ok)

RunPass(t) ==
    /\ pc # "exited"
    /\ Running(t)
    /\ \E ok \in BOOLEAN :
          /\ tasks' = [tasks EXCEPT ![t] =
                         [@ EXCEPT !.out = AfterRun(t, ok),
                                   !.targets = @ \cup {RewriteTarget(t)}]]
          /\ wgErr' = (wgErr \/ ~ok)
    /\ Run("rewrite", RewriteTarget(t))
    /\ UNCHANGED <<fsVars, walkVars, buildVars, cwd, originalDir, pc, deferred,
                   err, exitCode, fatal>>

(* line 302: WalkDir has returned. *)
EndWalk ==
    /\ pc = "walk"
    /\ pending = -1
    /\ todo = <<>>
    /\ Goto("wait")
    /\ UNCHANGED <<fsVars, walkVars, poolVars, buildVars, cwd, originalDir,
                   deferred, err, ran>>

(* Fault variants of AllReturned and OptimizeFailed: the join does not    *)
(* wait; the group's error is dropped.                                    *)
AllReturnedNoWait == TRUE

OptimizeFailedWalkOnly == wdErr

(* Fault variant of OptimizeFailed: the walk's error is dropped. *)
OptimizeFailedGroupOnly == wgErr

(* lines 303-311: wg.Wait blocks until every function given to wg.Go has  *)
(* returned; optimize returns the group's error, else the walk's.         *)
AllReturned == InFlight = {}

OptimizeFailed == wgErr \/ wdErr

(* lines 378-381: `if err := optimize(tmpDir)` declares its own err. *)
Wait ==
    /\ pc = "wait"
    /\ AllReturned
    /\ IF OptimizeFailed
       THEN Stop("optimize", err)
       ELSE Goto("tests") /\ UNCHANGED err
    /\ UNCHANGED <<fsVars, walkVars, poolVars, buildVars, cwd, originalDir,
                   deferred, ran>>

-----------------------------------------------------------------------------
(* main, lines 383-460: tests, build, snapshot diff, copy back *)

(* lines 384-395: go test ./... with cmd.Dir = tmpDir, when -runTests is  *)
(* set; its err is declared inside the if block.                          *)
Tests ==
    /\ pc = "tests"
    /\ \/ Goto("before") /\ UNCHANGED <<err, ran>>
       \/ /\ Run("test", StageRoot)
          /\ \/ Goto("before") /\ UNCHANGED err
             \/ Stop("test", err)
    /\ UNCHANGED <<fsVars, walkVars, poolVars, buildVars, cwd, originalDir,
                   deferred>>

(* lines 399-404: p = filepath.Join(tmpDir, Rel(modPath, originalDir)):   *)
(* the staged counterpart of the invocation directory.                    *)
SnapshotDir == originalDir

(* lines 406-410: before, err := os.ReadDir(p) *)
Before ==
    /\ pc = "before"
    /\ IF SnapshotDir \in stagedDirs
       THEN /\ before' = ReadDirOf(stage[SnapshotDir])
            /\ err' = FALSE
            /\ Goto("build")
       ELSE /\ Stop("snapshot", TRUE)
            /\ UNCHANGED before
    /\ UNCHANGED <<fsVars, walkVars, poolVars, after, diff, executable, copies, cwd,
                   originalDir, deferred, ran>>

(* What a successful go build leaves behind: files under some of the      *)
(* names, executable or not.                                              *)
BuildOutputs ==
    {S \in SUBSET {File(n, x, "bin") : n \in Names, x \in BOOLEAN} :
        \A e, f \in S : e.name = f.name => e = f}

(* The files are written over what is there; a directory is in the way. *)
WriteFiles(S, out) == {e \in S : e.name \notin EntryNames(out)} \cup out

CanWrite(S, out) == \A e \in S : e.isDir => e.name \notin EntryNames(out)

(* lines 412-420: go build [goflags] runs in the process's cwd and writes *)
(* there, or where a -o among the goflags sends it: the staged invocation *)
(* directory.                                                             *)
BuildDir == cwd

Build ==
    /\ pc = "build"
    /\ Run("build", BuildDir)
    /\ \/ /\ \E out \in BuildOutputs :
             \E to \in {BuildDir, [tree |-> "stage", dir |-> SnapshotDir]} :
                /\ to.tree = "stage" =>
                      /\ CanWrite(stage[to.dir], out)
                      /\ stage' = [stage EXCEPT ![to.dir] = WriteFiles(@, out)]
                      /\ orig' = orig
                /\ to.tree = "orig" =>
                      /\ CanWrite(orig[to.dir], out)
                      /\ orig' = [orig EXCEPT ![to.dir] = WriteFiles(@, out)]
                      /\ stage' = stage
          /\ err' = FALSE
          /\ Goto("after")
       \/ /\ Stop("build", TRUE)
          /\ UNCHANGED <<orig, stage>>
    /\ UNCHANGED <<module, flags, stagedDirs, walkVars, poolVars, buildVars, cwd,
                   originalDir, deferred>>

(* lines 422-426: after, err := os.ReadDir(p) *)
After ==
    /\ pc = "after"
    /\ \/ /\ after' = ReadDirOf(stage[SnapshotDir])
          /\ err' = FALSE
          /\ Goto("classify")
       \/ /\ Stop("snapshot", TRUE)
          /\ UNCHANGED after
    /\ UNCHANGED <<fsVars, walkVars, poolVars, before, diff, executable, copies, cwd,
                   originalDir, deferred, ran>>

(* lines 432 and 454: filepath.Join(tmpDir, f.Name()) *)
CandidateDir == 0

(* isExecutable, lines 229-240, on filepath.Join(tmpDir, name):           *)
(* "err" when os.Stat fails, else whether an executable bit is set.       *)
isExecutable(n) ==
    IF n \notin EntryNames(stage[CandidateDir]) THEN "err"
    ELSE IF EntryOf(stage[CandidateDir], n).exec THEN "yes" ELSE "no"

(* lines 430-440: the loop over diff; failed when a stat failed. *)
RECURSIVE ExecLoop(_)
ExecLoop(fs) ==
    IF fs = <<>> THEN [failed |-> FALSE, list |-> <<>>]
    ELSE LET f == Head(fs)
             rest == ExecLoop(Tail(fs))
         IN IF isExecutable(f.name) = "err" THEN [failed |-> TRUE, list |-> <<>>]
            ELSE IF rest.failed THEN rest
            ELSE IF isExecutable(f.name) = "yes"
                 THEN [rest EXCEPT !.list = <<f>> \o @]
            ELSE rest

Candidates == ExecLoop(diffDirs(before, after))

(* lines 428-451 *)
Classify ==
    /\ pc = "classify"
    /\ diff' = diffDirs(before, after)
    /\ IF Candidates.failed
       THEN Stop("stat", err) /\ UNCHANGED executable
       ELSE /\ executable' = Candidates.list
            /\ IF Len(Candidates.list) = 0 THEN Stop("none", err)
               ELSE IF Len(Candidates.list) = 1 THEN Goto("copy") /\ UNCHANGED err
               ELSE Stop("ambiguous", err)
    /\ UNCHANGED <<fsVars, walkVars, poolVars, before, after, copies, cwd,
                   originalDir, deferred, ran>>

(* copyFile, lines 189-204, from the staging tree into the original       *)
(* directory: the destination is created with mode 0755 or truncated.     *)
CopiedFile(n, src) ==
    IF n \in EntryNames(orig[originalDir])
    THEN File(n, EntryOf(orig[originalDir], n).exec, src.data)
    ELSE File(n, TRUE, src.data)

(* lines 453-459: `if err := copyFile(...)` declares its own err. *)
CopyBack ==
    /\ pc = "copy"
    /\ LET n == executable[1].name
           src == EntryOf(stage[CandidateDir], n)
           dstIsDir == \E e \in orig[originalDir] : e.name = n /\ e.isDir
       IN /\ copies' = Append(copies, [src |-> CandidateDir, dst |-> originalDir,
                                       name |-> n])
          /\ \/ /\ ~src.isDir /\ ~dstIsDir
                /\ orig' = [orig EXCEPT ![originalDir] =
                              WriteFiles(@, {CopiedFile(n, src)})]
                /\ Stop("none", err)
             \/ \* io.Copy fails after the destination was opened
                /\ ~dstIsDir
                /\ orig' = [orig EXCEPT ![originalDir] =
                              WriteFiles(@, {CopiedFile(n, File(n, TRUE, "none"))})]
                /\ Stop("copy", err)
             \/ \* os.Open or os.OpenFile fails
                /\ orig' = orig
                /\ Stop("copy", err)
    /\ UNCHANGED <<module, flags, stagedDirs, stage, walkVars, poolVars, before, after,
                   diff, executable, cwd, originalDir, deferred, ran>>

-----------------------------------------------------------------------------

Next ==
    \/ Getwd
    \/ FindGoMod
    \/ MkTmpDir
    \/ CopyFiles
    \/ Chdir
    \/ Tidy
    \/ Vendor
    \/ Visit
    \/ Dispatch
    \/ \E t \in TaskIds : RunPass(t)
    \/ EndWalk
    \/ Wait
    \/ Tests
    \/ Before
    \/ Build
    \/ After
    \/ Classify
    \/ CopyBack

Spec == Init /\ [][Next]_vars

(* One step of some pool goroutine: a rewriter process ends. *)
TaskStep == \E t \in TaskIds : RunPass(t)

(* Fair scheduling of the main goroutine and of the pool goroutines;      *)
(* every external command terminates.                                     *)
FairSpec ==
    Init /\ [][Next]_vars /\ WF_vars(Next) /\ WF_vars(Dispatch) /\ WF_vars(TaskStep)

-----------------------------------------------------------------------------
(* diffDirs on any two listings: main at line 429 with any before and     *)
(* after snapshots of the staged module root.                             *)

EntrySets ==
    {S \in SUBSET ({File(n, x, "pre") : n \in Names, x \in BOOLEAN}
                    \cup {SubDir(n) : n \in Names}) :
        \A e, f \in S : e.name = f.name => e = f}

InitDiff ==
    /\ module = [d \in 0..0 |-> DirRec(FALSE, FALSE, <<Go>>, {})]
    /\ flags = DefaultFlags
    /\ cwd = StageRoot
    /\ \E a, b \in EntrySets :
          /\ before = ReadDirOf(a)
          /\ after = ReadDirOf(b)
          /\ stage = [d \in 0..0 |-> b]
    /\ orig = [d \in 0..0 |-> {}]
    /\ stagedDirs = {0}
    /\ originalDir = 0
    /\ pc = "classify"
    /\ deferred = TRUE
    /\ err = FALSE
    /\ exitCode = -1
    /\ fatal = "none"
    /\ todo = <<>>
    /\ pending = -1
    /\ wdErr = FALSE
    /\ visits = [d \in 0..0 |-> 1]
    /\ classified = [d \in 0..0 |-> 1]
    /\ tasks = <<[path |-> 0, args |-> Args, out |-> <<TRUE, TRUE>>,
                  targets |-> {StageRoot}]>>
    /\ wgErr = FALSE
    /\ ran = {[cmd |-> c, at |-> StageRoot] :
                 c \in {"tidy", "vendor", "rewrite", "build"}}
    /\ diff = <<>>
    /\ executable = <<>>
    /\ copies = <<>>

NextDiff ==
    \/ Classify
    \/ CopyBack

SpecDiff == InitDiff /\ [][NextDiff]_vars

-----------------------------------------------------------------------------
(* Properties *)

Succeeded(t) ==
    /\ Len(tasks[t].out) = Passes
    /\ \A i \in 1..Passes : tasks[t].out[i]

Failed(t) == \E i \in 1..Len(tasks[t].out) : ~tasks[t].out[i]

Started(cmd) == \E r \in ran : r.cmd = cmd

(* optimize has returned nil to main. *)
OptimizeReturnedNil ==
    \/ pc \in {"tests", "before", "build", "after", "classify", "copy"}
    \/ /\ pc = "exited"
       /\ fatal \in {"none", "test", "snapshot", "build", "stat", "ambiguous",
                     "copy"}

(* C1: once a task has failed, neither the build nor the test command is  *)
(* ever run: a state in which one of them was started has every           *)
(* dispatched task succeeded and a walk that returned no error.           *)
C1_NoBuildAfterFailedTask ==
    (Started("build") \/ Started("test") \/ OptimizeReturnedNil) =>
        /\ \A t \in TaskIds : Succeeded(t)
        /\ ~wdErr

C1_Witness ==
    /\ pc = "exited"
    /\ fatal = "optimize"
    /\ \E t \in TaskIds : Failed(t)
    /\ ~Started("build")

(* C2: the join is a barrier: when optimize has returned, and so whenever *)
(* the test or build command has been started, no task is running or      *)
(* waiting to be dispatched and the walk has nothing left to visit.       *)
C2_JoinIsBarrier ==
    (OptimizeReturnedNil \/ Started("build") \/ Started("test")
       \/ (pc = "exited" /\ fatal = "optimize")) =>
        /\ \A t \in TaskIds : ~Running(t) /\ Len(tasks[t].out) >= 1
        /\ pending = -1
        /\ todo = <<>>

C2_Witness ==
    /\ Started("build")
    /\ Len(tasks) >= 2

(* C3: at most 5 tasks are in flight in every reachable state, and with 5 *)
(* in flight the walk's pending dispatch cannot happen.                   *)
C3_AtMostFiveInFlight ==
    /\ Cardinality({t \in TaskIds : Running(t)}) <= 5
    /\ (Cardinality({t \in TaskIds : Running(t)}) = 5 /\ pending # -1) =>
          ~ENABLED Dispatch

C3_Witness ==
    /\ Cardinality({t \in TaskIds : Running(t)}) = 5
    /\ pending # -1

(* C4: every task runs the rewriter on its own directory and on no other, *)
(* so the directories of two distinct tasks' runs are different.          *)
C4_TaskRewritesOwnDirectory ==
    /\ \A t \in TaskIds :
          tasks[t].targets \subseteq {[tree |-> "stage", dir |-> tasks[t].path]}
    /\ \A t, u \in TaskIds : t # u => tasks[t].targets \cap tasks[u].targets = {}

(* C5: a task whose first run failed never makes a second run, and its    *)
(* error is in the group: optimize does not return nil.                   *)
C5_FailedPassOneStopsTask ==
    \A t \in TaskIds :
        (Len(tasks[t].out) >= 1 /\ ~tasks[t].out[1]) =>
            /\ Len(tasks[t].out) = 1
            /\ wgErr
            /\ ~OptimizeReturnedNil

C5_Witness ==
    /\ pc = "exited"
    /\ \E t \in TaskIds : tasks[t].out = <<FALSE>>
    /\ \E t \in TaskIds : Succeeded(t)

(* The directory is hidden or lies below a hidden directory. *)
RECURSIVE HiddenOrBelow(_)
HiddenOrBelow(d) ==
    d # 0 /\ (module[d].hidden \/ HiddenOrBelow(Parent(d)))

TasksFor(d) == {t \in TaskIds : tasks[t].path = d}

WalkReturned ==
    \/ pc = "wait"
    \/ OptimizeReturnedNil
    \/ pc = "exited" /\ fatal = "optimize"

(* C6: when the walk has returned without error, every staged directory   *)
(* that is neither hidden nor below a hidden one was visited and          *)
(* classified once, the eligible ones have exactly one task each, no      *)
(* other directory has a task, and after the join every task has ended.   *)
C6_OneTaskPerEligibleDirectory ==
    (WalkReturned /\ ~wdErr) =>
        /\ \A d \in Dirs :
              IF d \in stagedDirs /\ ~HiddenOrBelow(d)
              THEN /\ visits[d] = 1
                   /\ classified[d] = 1
                   /\ Cardinality(TasksFor(d)) =
                         (IF shouldOptimize(d) = "yes" THEN 1 ELSE 0)
              ELSE /\ classified[d] = 0
                   /\ TasksFor(d) = {}
        /\ pc # "wait" => \A t \in TaskIds : Succeeded(t) \/ Failed(t)

C6_Witness ==
    /\ pc = "tests"
    /\ Len(tasks) >= 2
    /\ \E d \in stagedDirs : module[d].hidden
    /\ \E d \in stagedDirs : ~HiddenOrBelow(d) /\ shouldOptimize(d) = "no"

(* C7: the process exits 0 only when the run hit no fatal error, and 1    *)
(* after every fatal error.                                               *)
C7_ExitStatusTellsFailure ==
    pc = "exited" => exitCode = (IF fatal = "none" THEN 0 ELSE 1)

(* The snapshot directory's new non-directory entries with an executable  *)
(* bit, once the after-snapshot is taken.                                 *)
NewExecutables ==
    {e \in stage[SnapshotDir] :
        /\ ~e.isDir
        /\ e.exec
        /\ e.name \notin {before[i].name : i \in DOMAIN before}}

(* The run got as far as diffing the two snapshots. *)
SnapshotsTaken ==
    /\ pc = "exited"
    /\ Started("build")
    /\ fatal \notin {"build", "snapshot"}

(* C8: a copy back is made exactly when the build succeeded and one new   *)
(* non-directory entry is executable; none: no copy and no error; two or  *)
(* more: the ambiguity error and no copy.                                 *)
C8_CopyIffOneCandidate ==
    pc = "exited" =>
        /\ copies # <<>> <=> (SnapshotsTaken /\ Cardinality(NewExecutables) = 1)
        /\ (SnapshotsTaken /\ Cardinality(NewExecutables) = 0) => fatal = "none"
        /\ (SnapshotsTaken /\ Cardinality(NewExecutables) >= 2) =>
              fatal = "ambiguous"

(* What the build wrote into the staging tree. *)
Built == {<<d, e>> \in UNION {{<<x, y>> : y \in stage[x]} : x \in Dirs} :
             e.data = "bin"}

OneNewExecutable ==
    \E d \in Dirs : \E e \in stage[d] :
        /\ Built = {<<d, e>>}
        /\ e.exec
        /\ e.name \notin EntryNames(module[d].entries)

(* C9: wherever inside the module the tool is started, a run whose build  *)
(* created exactly one new executable ends with it copied to the original *)
(* invocation directory; the snapshot, build and candidate directories    *)
(* are the staged counterpart of the invocation directory.                *)
C9_ExecutableCopiedBack ==
    /\ (SnapshotsTaken /\ OneNewExecutable /\ fatal # "copy") =>
          \E e \in orig[originalDir] : e.data = "bin" /\ ~e.isDir
    /\ pc = "build" =>
          /\ BuildDir = [tree |-> "stage", dir |-> SnapshotDir]
          /\ CandidateDir = SnapshotDir

InitialOrig == [d \in Dirs |-> module[d].entries]

(* C10: tidy, vendor, the rewriter, the tests and the build run in the    *)
(* staging tree only; the original tree is as it was at the start, except *)
(* for the one file the copy back writes into the invocation directory    *)
(* on a run with exactly one candidate.                                   *)
C10_OriginalTreeUntouched ==
    /\ \A r \in ran : r.at.tree = "stage"
    /\ \/ orig = InitialOrig
       \/ /\ Len(copies) = 1
          /\ Len(executable) = 1
          /\ \A d \in Dirs :
                {e \in orig[d] :
                    ~(d = originalDir /\ e.name = executable[1].name)}
                = {e \in InitialOrig[d] :
                    ~(d = originalDir /\ e.name = executable[1].name)}
          /\ \E e \in orig[originalDir] :
                e.name = executable[1].name /\ ~e.isDir
    /\ copies = <<>> => orig = InitialOrig

C10_Witness ==
    /\ pc = "exited"
    /\ Len(copies) = 1
    /\ orig # InitialOrig
    /\ {"tidy", "vendor", "rewrite", "test", "build"} \subseteq {r.cmd : r \in ran}

-----------------------------------------------------------------------------
(* The run completed successfully and the binary was delivered. *)
CompletedWithBinary ==
    /\ pc = "exited"
    /\ fatal = "none"
    /\ exitCode = 0
    /\ Len(copies) = 1

(* C11: when a run that delivered the binary terminates, the staging tree *)
(* no longer exists.                                                      *)
C11_StagingRemovedOnSuccess ==
    CompletedWithBinary => stagedDirs = {}

-----------------------------------------------------------------------------
FilesOf(d) == {module[d].files[i] : i \in DOMAIN module[d].files}

AllParse(d) == \A f \in FilesOf(d) : f.parses

HasGo(d) == \E f \in FilesOf(d) : f.go

ImportsReflect(d) == \E f \in FilesOf(d) : f.go /\ f.reflect

(* C12: for a directory whose files all parse, shouldOptimize says        *)
(* eligible exactly when the directory holds a .go file and no .go file   *)
(* of it, test files included, imports reflect; a directory without .go   *)
(* files or with a reflect import never gets a task, whatever the         *)
(* -generated and -testFiles flags are.                                   *)
C12_EligibleIffGoWithoutReflect ==
    \A d \in Dirs : AllParse(d) =>
        /\ shouldOptimize(d) \in {"yes", "no"}
        /\ shouldOptimize(d) = "yes" <=> (HasGo(d) /\ ~ImportsReflect(d))
        /\ (~HasGo(d) \/ ImportsReflect(d)) =>
              /\ pending # d
              /\ \A t \in TaskIds : tasks[t].path # d

C12_Witness ==
    /\ pc = "wait"
    /\ ~wdErr
    /\ ~flags.testFiles
    /\ flags.generated
    /\ classified[0] = 1
    /\ module[0].files = <<Txt, Go, GoTestReflect>>
    /\ tasks = <<>>

-----------------------------------------------------------------------------
BelowHidden(d) == d # 0 /\ HiddenOrBelow(Parent(d))

InTodo(d) == \E i \in DOMAIN todo : todo[i] = d

(* C13: a directory whose name begins with a dot is skipped with all its  *)
(* descendants: copyFiles stages none of them, the walk of optimize never *)
(* reads or classifies them, hands no descendant to the callback and      *)
(* gives none of them a task, and both walks go on with the siblings.     *)
C13_HiddenSubtreesSkipped ==
    /\ \A d \in Dirs : HiddenOrBelow(d) =>
          /\ classified[d] = 0
          /\ pending # d
          /\ TasksFor(d) = {}
          /\ visits[d] <= 1
          /\ BelowHidden(d) => (visits[d] = 0 /\ ~InTodo(d))
          /\ ~module[d].vendored => d \notin stagedDirs
    /\ Started("tidy") =>
          \A d \in Dirs :
              (~HiddenOrBelow(d) /\ ~module[d].vendored) => d \in stagedDirs
    /\ (WalkReturned /\ ~wdErr) =>
          \A d \in stagedDirs :
              /\ ~HiddenOrBelow(d) => (visits[d] = 1 /\ classified[d] = 1)
              /\ (module[d].hidden /\ ~BelowHidden(d)) => visits[d] = 1

C13_Witness ==
    /\ WalkReturned
    /\ ~wdErr
    /\ \E d \in stagedDirs, c \in stagedDirs, s \in stagedDirs :
          /\ module[d].hidden /\ visits[d] = 1
          /\ Parent(c) = d /\ c # 0 /\ visits[c] = 0 /\ shouldOptimize(c) = "yes"
          /\ s > d /\ Parent(s) = Parent(d) /\ TasksFor(s) # {}

-----------------------------------------------------------------------------
AllTasksSucceeded == \A t \in TaskIds : Succeeded(t)

(* C14: the stages run in the order staging, tidy, vendor, rewriting,     *)
(* tests, build, snapshot diff, copy back, and a failed stage is the last *)
(* one: after a tidy or vendor failure no rewriter is ever started, and   *)
(* after a build failure there is no after-snapshot, diff or copy.        *)
C14_StagesInOrder ==
    /\ Started("tidy") => (0 \in stagedDirs /\ cwd = StageRoot)
    /\ Started("vendor") => Started("tidy")
    /\ (pc \in {"walk", "wait"} \/ tasks # <<>> \/ Started("rewrite")) =>
          Started("vendor")
    /\ (Started("test") \/ Started("build")) =>
          (Started("vendor") /\ AllTasksSucceeded /\ ~wdErr)
    /\ (after # <<>> \/ diff # <<>> \/ executable # <<>> \/ copies # <<>>) =>
          Started("build")
    /\ copies # <<>> => (Len(executable) = 1 /\ diff # <<>> /\ after # <<>>)
    /\ fatal = "staging" => ran = {}
    /\ fatal = "deps" =>
          /\ pc = "exited"
          /\ ~Started("rewrite") /\ ~Started("test") /\ ~Started("build")
          /\ tasks = <<>> /\ pending = -1 /\ todo = <<>>
          /\ copies = <<>>
    /\ fatal \in {"optimize", "test"} =>
          (pc = "exited" /\ ~Started("build") /\ copies = <<>>)
    /\ fatal = "build" =>
          /\ pc = "exited"
          /\ after = <<>> /\ diff = <<>> /\ executable = <<>>
          /\ copies = <<>>
          /\ \A d \in Dirs : \A e \in stage[d] : e.data # "bin"

C14_Witness ==
    /\ pc = "exited"
    /\ fatal = "build"
    /\ {"tidy", "vendor", "rewrite", "test", "build"} = {r.cmd : r \in ran}
    /\ Len(tasks) >= 2

-----------------------------------------------------------------------------
(* Every file of the directories copyFiles walks is in the staging tree. *)
StagingComplete ==
    \A d \in CopyTree(0) :
        EntryNames(module[d].entries) \subseteq EntryNames(stage[d])

(* C15: a staging failure on any entry aborts the run: dependency         *)
(* resolution, and with it rewriting, build and copy back, starts only on *)
(* a staging tree that holds every entry of the module.                   *)
C15_StagingErrorsAbort ==
    (Started("tidy") \/ Started("rewrite") \/ Started("build") \/ copies # <<>>)
        => StagingComplete

-----------------------------------------------------------------------------
(* The invocation directory held a file named n when the tool started. *)
PreExisting(n) ==
    /\ originalDir # -1
    /\ \E e \in module[originalDir].entries : e.name = n /\ ~e.isDir

(* The build wrote an executable named n and nothing else. *)
BuildProduced(n) ==
    /\ SnapshotsTaken
    /\ \E e \in stage[SnapshotDir] :
          /\ e.name = n /\ e.exec /\ e.data = "bin"
          /\ Built = {<<SnapshotDir, e>>}

(* C16: when the invocation directory already holds a file with the name  *)
(* of the executable the build produces, the name is in the before        *)
(* snapshot, is not reported as new, nothing is copied back and the       *)
(* pre-existing file stays as it was.                                     *)
C16_ExistingBinaryBlocksCopy ==
    \A n \in Names : (PreExisting(n) /\ BuildProduced(n)) =>
        /\ \E i \in DOMAIN before : before[i].name = n
        /\ \A i \in DOMAIN diff : diff[i].name # n
        /\ copies = <<>>
        /\ orig[originalDir] = module[originalDir].entries

-----------------------------------------------------------------------------
(* One more rewriter run of task t has returned in this step. *)
RanOnce(t) ==
    /\ Len(tasks'[t].out) = Len(tasks[t].out) + 1
    /\ \A i \in 1..Len(tasks[t].out) : tasks'[t].out[i] = tasks[t].out[i]

(* C17: a task runs the rewriter one invocation at a time, at most twice  *)
(* and never again after a failed one: each step adds at most one result  *)
(* to a task whose earlier runs all succeeded, a finished task whose runs *)
(* all succeeded has run it exactly twice, and no task has a third run.   *)
C17_TwoSequentialPassesNoRetry ==
    /\ [](\A t \in TaskIds :
            /\ Len(tasks[t].out) <= Passes
            /\ \A i \in 1..Len(tasks[t].out) :
                  ~tasks[t].out[i] => i = Len(tasks[t].out)
            /\ (pc \notin {"walk", "wait"} /\ ~Failed(t)) =>
                  Len(tasks[t].out) = Passes)
    /\ [][\A t \in TaskIds :
            tasks'[t].out # tasks[t].out =>
                /\ RanOnce(t)
                /\ ~Failed(t)
                /\ Len(tasks[t].out) < Passes]_vars

C17_Witness ==
    /\ pc = "exited"
    /\ \E t, u \in TaskIds :
          /\ Succeeded(t)
          /\ tasks[u].out = <<TRUE, FALSE>>

-----------------------------------------------------------------------------
(* C18: once the walk has hit a read or parse error it hands no further   *)
(* directory to the callback and dispatches no further task; the tasks    *)
(* dispatched before still finish before optimize returns, optimize       *)
(* returns an error and neither the tests nor the build are started.      *)
C18_WalkErrorStopsRun ==
    /\ [](wdErr =>
            /\ todo = <<>>
            /\ pending = -1
            /\ pc \in {"walk", "wait", "exited"}
            /\ ~OptimizeReturnedNil
            /\ ~Started("test") /\ ~Started("build")
            /\ copies = <<>>
            /\ pc = "exited" =>
                  /\ fatal = "optimize"
                  /\ \A t \in TaskIds : Succeeded(t) \/ Failed(t))
    /\ [][wdErr => (Len(tasks') = Len(tasks) /\ visits' = visits)]_vars

C18_Witness ==
    /\ pc = "exited"
    /\ wdErr
    /\ ~wgErr
    /\ fatal = "optimize"
    /\ Len(tasks) >= 2
    /\ \A t \in TaskIds : Succeeded(t)
    /\ \E d \in stagedDirs : visits[d] = 0 /\ ~HiddenOrBelow(d)

-----------------------------------------------------------------------------
FileNames(l) == {l[i].name : i \in {j \in DOMAIN l : ~l[j].isDir}}

AllNames(l) == {l[i].name : i \in DOMAIN l}

IsNewFile(e) == ~e.isDir /\ e.name \notin FileNames(before)

IsNewName(e) == ~e.isDir /\ e.name \notin AllNames(before)

-----------------------------------------------------------------------------
(* C20: under fair scheduling, with external commands that terminate,     *)
(* every run terminates: the scanner waiting for a pool slot has got it,  *)
(* every dispatched task has returned and the join has returned when the  *)
(* process ends, which it eventually does; no state before the exit is    *)
(* without a possible step.                                               *)
C20_RunTerminates ==
    /\ <>[](/\ pc = "exited"
            /\ pending = -1
            /\ \A t \in TaskIds : ~Running(t))
    /\ [](pc # "exited" => ENABLED Next)
    /\ []((pc = "walk" /\ pending # -1) => ENABLED (Dispatch \/ TaskStep))

C20_Witness ==
    /\ pc = "exited"
    /\ fatal = "none"
    /\ Len(tasks) > PoolSize
    /\ \A t \in TaskIds : Succeeded(t)

====
